---- MODULE Spec2Model ----
(***************************************************************************)
(* Verification model of the marine-data-learning vessel analysis scripts. *)
(*                                                                         *)
(* Its specifications share one list of variables:                         *)
(*   SpecMerge    - the interval aggregator of the retired integrated       *)
(*                  analysis (parse_timestamp, merge_intervals,             *)
(*                  calculate_total_hours);                                 *)
(*   SpecLookup   - the multi-strategy vessel lookup of the comprehensive   *)
(*                  analysis and of the fleet checker;                      *)
(*   SpecAnalysis - comprehensive_vessel_analysis: lookup, detail           *)
(*                  extraction, signal collection and the rule cascade;     *)
(*   SpecBatch    - the thread-pool main loops that collect the results;    *)
(*   SpecFetch    - the paging loop of fetch_fishing_events, and            *)
(*                  SpecFetchLive, the same loop under weak fairness;       *)
(*   SpecExtract  - extract_vessel_details on vessels of every shape;       *)
(*   SpecSignals  - the signal collection on port-visit and fishing feeds;  *)
(*   SpecCascade  - the rule cascades of the comprehensive analysis and of  *)
(*                  the fleet checker;                                      *)
(*   SpecRetry    - fetch_with_retry.                                       *)
(* Every specification leaves the variables of the others unchanged.        *)
(***************************************************************************)
EXTENDS Integers, Sequences, FiniteSets, TLC

VARIABLES
    \* ---- interval aggregator (retired scripts/intergrated_analysis.py) ----
    events,         \* the list handed to calculate_total_hours
    intervals,      \* its local list of parsed (start, end) tuples
    merged,         \* the list merge_intervals returned
    remerged,       \* merge_intervals applied to its own output
    total_hours,    \* the value calculate_total_hours returns
    mpc,            \* position inside calculate_total_hours
    \* ---- one input row and the upstream answers to its lookups ----
    row_imo,        \* row["IMO"]
    row_name,       \* row["Vessel Name"]
    row_ssid,       \* the ssid argument of the lookup
    imoResp,        \* what lookup_by_imo returns for the row
    nameResp,       \* what lookup_by_name returns for the row
    idResp,         \* what lookup_by_id returns for the row
    \* ---- the two lookups ----
    comp_lookup,    \* outcome of lookup_vessel_by_identifiers
    fleet_lookup,   \* outcome of lookup_vessel
    \* ---- comprehensive_vessel_analysis(row) ----
    feeds,              \* what the upstream holds for the vessel, per category
    apc,                \* position inside comprehensive_vessel_analysis
    vessel_data,        \* the record the lookup returned
    ssid,               \* the id the lookup returned
    details,            \* extract_vessel_details(vessel_data)
    requests,           \* the event fetches issued so far, in order
    fishing_data,       \* the signal bundles, NoData while None
    port_data,
    gap_data,
    encounter_data,
    flag_history_data,
    classification,
    reasons,
    owner_country,
    result,             \* the dict the function returns
    \* ---- main(): the thread-pool batch ----
    script,             \* which script's main is running
    task,               \* per input row, the state of its future
    results,            \* the results list of main
    bpc,                \* position of main
    raised,             \* the rows whose task function raised
    \* ---- fetch_fishing_events: the paging loop ----
    fetcher,            \* which script's loop is running
    upstream,           \* what the upstream answers, per requested offset
    offset,             \* params["offset"]
    all_events,         \* the list the loop extends and returns
    pages,              \* the answers the loop has received, in order
    passes,             \* the requests issued so far
    fpc,                \* position of the loop
    \* ---- fetch_with_retry: one fetch ----
    status,             \* how the upstream answers each attempt
    attempt,            \* the loop variable of "for attempt in range(...)"
    slept,              \* per attempt made, the seconds slept after it
    fetched,            \* what the function returns, "pending" before it does
    rpc                 \* position of the function

mergeVars == <<events, intervals, merged, remerged, total_hours, mpc>>
inputVars == <<row_imo, row_name, row_ssid, imoResp, nameResp, idResp>>
lookupVars == <<comp_lookup, fleet_lookup>>
foundVars == <<vessel_data, ssid>>
signalVars == <<requests, fishing_data, port_data, gap_data, encounter_data,
                flag_history_data>>
cascadeVars == <<classification, reasons, owner_country>>
analysisVars == <<feeds, apc, foundVars, details, signalVars, cascadeVars, result>>

batchVars == <<script, task, results, bpc, raised>>

fetchVars == <<fetcher, upstream, offset, all_events, pages, passes, fpc>>

retryVars == <<status, attempt, slept, fetched, rpc>>

vars == <<mergeVars, inputVars, lookupVars, analysisVars, batchVars, fetchVars,
          retryVars>>

\* What each specification leaves alone.
notMergeVars == <<inputVars, lookupVars, analysisVars, batchVars, fetchVars, retryVars>>
notLookupVars == <<mergeVars, analysisVars, batchVars, fetchVars, retryVars>>
notAnalysisVars == <<mergeVars, lookupVars, batchVars, fetchVars, retryVars>>
notBatchVars == <<mergeVars, inputVars, lookupVars, analysisVars, fetchVars, retryVars>>
notFetchVars == <<mergeVars, inputVars, lookupVars, analysisVars, batchVars, retryVars>>
notRetryVars == <<mergeVars, inputVars, lookupVars, analysisVars, batchVars, fetchVars>>

(***************************************************************************)
(* Python values                                                            *)
(***************************************************************************)
\* Python's None where the model needs an instant, a number or a string.
None == -1
NoneStr == "None"

Max(a, b) == IF a >= b THEN a ELSE b
\* "x in s" on a list.
InSeq(x, s) == \E i \in 1..Len(s) : s[i] = x

Min(a, b) == IF a <= b THEN a ELSE b

(***************************************************************************)
(* Bounds of the interval aggregator's inputs                               *)
(***************************************************************************)
MaxEvents == 3      \* events per call
MaxHour == 12       \* last hour of the window, counted from T0

SecondsPerHour == 3600

\* Events start and end on the 5-hour marks or on the 12-hour marks of the
\* window: T0, T0+5h, T0+10h, T0+12h, ...
HourMarks == {h \in 0..MaxHour : h % 5 = 0 \/ h % 12 = 0}
Instants == {SecondsPerHour * h : h \in HourMarks}

(***************************************************************************)
(* Timestamps.  Upstream sends two encodings of an instant, with            *)
(* ("...:13.000Z") and without ("...:13Z") sub-second digits; a string that *)
(* is neither is malformed, and a key may be empty or missing.  A timestamp *)
(* string is modelled by its encoding and the instant (in seconds from T0)  *)
(* it denotes.                                                              *)
(***************************************************************************)
Stamp(f, t) == [fmt |-> f, t |-> t]
MalformedStamp == Stamp("bad", 0)
EmptyStamp == Stamp("empty", 0)
MissingStamp == Stamp("missing", 0)

\* Python truthiness of event.get(key): None and "" are falsy.
Truthy(ts) == ts.fmt \notin {"empty", "missing"}

\* parse_timestamp: "%Y-%m-%dT%H:%M:%S.%fZ" first, then "%Y-%m-%dT%H:%M:%SZ",
\* then None.
parse_timestamp(ts) ==
    IF ts.fmt = "ms" THEN ts.t
    ELSE IF ts.fmt = "s" THEN ts.t
    ELSE None

Event(s, e) == [start |-> s, end |-> e]

WellFormedEvents ==
    {Event(Stamp(x[1], x[2]), Stamp(x[1], x[3])) :
        x \in {y \in {"ms", "s"} \X Instants \X Instants : y[2] <= y[3]}}

BrokenEvents ==
    {Event(MalformedStamp, Stamp("ms", 0)), Event(Stamp("s", 0), MissingStamp)}

MergeEvents == WellFormedEvents \cup BrokenEvents

(***************************************************************************)
(* merge_intervals                                                          *)
(***************************************************************************)
\* list.sort(key=lambda x: x[0]): stable, ascending by start.
RECURSIVE InsertByStart(_, _)
InsertByStart(sorted, iv) ==
    IF sorted = <<>> THEN <<iv>>
    ELSE LET n == Len(sorted) IN
         IF sorted[n][1] <= iv[1] THEN Append(sorted, iv)
         ELSE Append(InsertByStart(SubSeq(sorted, 1, n - 1), iv), sorted[n])

RECURSIVE SortPrefix(_, _)
SortPrefix(ivs, n) ==
    IF n = 0 THEN <<>> ELSE InsertByStart(SortPrefix(ivs, n - 1), ivs[n])

SortByStart(ivs) == SortPrefix(ivs, Len(ivs))

\* Mutant: the merged end is taken from the current interval (max dropped).
RECURSIVE SweepFrom_noMax(_, _, _)
SweepFrom_noMax(ivs, i, acc) ==
    IF i > Len(ivs) THEN acc
    ELSE LET current == ivs[i]
             last == acc[Len(acc)]
         IN IF current[1] <= last[2]
            THEN SweepFrom_noMax(ivs, i + 1,
                    [acc EXCEPT ![Len(acc)] = <<last[1], current[2]>>])
            ELSE SweepFrom_noMax(ivs, i + 1, Append(acc, current))

\* Mutant: strict comparison, back-to-back intervals stay apart.
RECURSIVE SweepFrom_strict(_, _, _)
SweepFrom_strict(ivs, i, acc) ==
    IF i > Len(ivs) THEN acc
    ELSE LET current == ivs[i]
             last == acc[Len(acc)]
         IN IF current[1] < last[2]
            THEN SweepFrom_strict(ivs, i + 1,
                    [acc EXCEPT ![Len(acc)] = <<last[1], Max(last[2], current[2])>>])
            ELSE SweepFrom_strict(ivs, i + 1, Append(acc, current))

\* Mutant: the candidate is compared with the running interval's start.
RECURSIVE SweepFrom_lastStart(_, _, _)
SweepFrom_lastStart(ivs, i, acc) ==
    IF i > Len(ivs) THEN acc
    ELSE LET current == ivs[i]
             last == acc[Len(acc)]
         IN IF current[1] <= last[1]
            THEN SweepFrom_lastStart(ivs, i + 1,
                    [acc EXCEPT ![Len(acc)] = <<last[1], Max(last[2], current[2])>>])
            ELSE SweepFrom_lastStart(ivs, i + 1, Append(acc, current))

\* Mutant: the candidate is compared with the previous input interval
\* instead of the running merged interval.
RECURSIVE SweepFrom_prevInput(_, _, _)
SweepFrom_prevInput(ivs, i, acc) ==
    IF i > Len(ivs) THEN acc
    ELSE LET current == ivs[i]
             last == acc[Len(acc)]
         IN IF current[1] <= ivs[i - 1][2]
            THEN SweepFrom_prevInput(ivs, i + 1,
                    [acc EXCEPT ![Len(acc)] = <<last[1], Max(last[2], current[2])>>])
            ELSE SweepFrom_prevInput(ivs, i + 1, Append(acc, current))

\* The sweep "for current in intervals[1:]": ivs is the sorted list, i the
\* position of current, acc the list merged so far.
RECURSIVE SweepFrom(_, _, _)
SweepFrom(ivs, i, acc) ==
    IF i > Len(ivs) THEN acc
    ELSE LET current == ivs[i]
             last == acc[Len(acc)]
         IN IF current[1] <= last[2]
            THEN SweepFrom(ivs, i + 1,
                    [acc EXCEPT ![Len(acc)] = <<last[1], Max(last[2], current[2])>>])
            ELSE SweepFrom(ivs, i + 1, Append(acc, current))

\* The list the caller passed, as merge_intervals leaves it: sorted in place
\* unless it was empty.
SortedInPlace(ivs) == IF ivs = <<>> THEN ivs ELSE SortByStart(ivs)

\* The value merge_intervals returns.
merge_intervals(ivs) ==
    IF ivs = <<>> THEN <<>>
    ELSE LET sorted == SortByStart(ivs) IN SweepFrom(sorted, 2, <<sorted[1]>>)

(***************************************************************************)
(* calculate_total_hours                                                    *)
(***************************************************************************)
\* The loop that builds the interval list: an event is kept when both keys
\* are truthy and both parse.
RECURSIVE ParsedIntervals(_)
ParsedIntervals(evs) ==
    IF evs = <<>> THEN <<>>
    ELSE LET event == evs[1]
             rest == ParsedIntervals(Tail(evs))
         IN IF Truthy(event.start) /\ Truthy(event.end)
                /\ parse_timestamp(event.start) # None
                /\ parse_timestamp(event.end) # None
            THEN <<<<parse_timestamp(event.start), parse_timestamp(event.end)>>>> \o rest
            ELSE rest

\* sum((end - start).total_seconds() for start, end in merged_intervals)
RECURSIVE TotalSeconds(_)
TotalSeconds(ivs) ==
    IF ivs = <<>> THEN 0 ELSE (ivs[1][2] - ivs[1][1]) + TotalSeconds(Tail(ivs))

\* total_seconds / 3600.0; every instant of this specification is a whole
\* hour, so the quotient is exact.
HoursOf(seconds) == seconds \div SecondsPerHour

\* The aggregator before any call.
MergeIdle ==
    /\ events = <<>>
    /\ intervals = <<>>
    /\ merged = <<>>
    /\ remerged = <<>>
    /\ total_hours = None
    /\ mpc = "idle"

MergeInit ==
    /\ \E k \in 0..MaxEvents : events \in [1..k -> MergeEvents]
    /\ intervals = <<>>
    /\ merged = <<>>
    /\ remerged = <<>>
    /\ total_hours = None
    /\ mpc = "start"

\* calculate_total_hours, lines 57-65.
ParseEvents ==
    /\ mpc = "start"
    /\ intervals' = ParsedIntervals(events)
    /\ mpc' = "parsed"
    /\ UNCHANGED <<events, merged, remerged, total_hours>>
    /\ UNCHANGED notMergeVars

\* calculate_total_hours, line 66: the call of merge_intervals, which sorts
\* the caller's list in place and returns the merged list.
MergeIntervals ==
    /\ mpc = "parsed"
    /\ intervals' = SortedInPlace(intervals)
    /\ merged' = merge_intervals(intervals)
    /\ mpc' = "merged"
    /\ UNCHANGED <<events, remerged, total_hours>>
    /\ UNCHANGED notMergeVars

\* calculate_total_hours, lines 67-68.
SumDurations ==
    /\ mpc = "merged"
    /\ total_hours' = HoursOf(TotalSeconds(merged))
    /\ mpc' = "summed"
    /\ UNCHANGED <<events, intervals, merged, remerged>>
    /\ UNCHANGED notMergeVars

\* merge_intervals called on the list it returned.
MergeAgain ==
    /\ mpc = "summed"
    /\ remerged' = merge_intervals(merged)
    /\ mpc' = "remerged"
    /\ UNCHANGED <<events, intervals, merged, total_hours>>
    /\ UNCHANGED notMergeVars

MergeNext == ParseEvents \/ MergeIntervals \/ SumDurations \/ MergeAgain

(***************************************************************************)
(* Upstream vessel records                                                  *)
(*                                                                          *)
(* An entry of a search response.  selfReportedInfo and registryInfo come   *)
(* as a list of sub-records, as one sub-record (a dict) or not at all.      *)
(***************************************************************************)
InfoList(recs) == [shape |-> "list", recs |-> recs]
InfoDict(rec) == [shape |-> "dict", recs |-> <<rec>>]
InfoAbsent == [shape |-> "absent", recs |-> <<>>]

SelfReported(shipname, flag, shiptype) ==
    [shipname |-> shipname, flag |-> flag, shiptype |-> shiptype]

Registry(imo, vesselName, flag, lengthMeters, enginePowerKw) ==
    [imo |-> imo, vesselName |-> vesselName, flag |-> flag,
     lengthMeters |-> lengthMeters, enginePowerKw |-> enginePowerKw,
     grossTonnage |-> None, gearType |-> NoneStr]

\* An entry of ownerOperatorInfo: the owner's name, as its lower-case
\* words, and the owner's country code.
Owner(name, country) == [name |-> name, country |-> country]

Vessel(id, srep, reg, owners) ==
    [id |-> id, selfReportedInfo |-> srep, registryInfo |-> reg,
     ownerOperatorInfo |-> owners]

\* vessel_data = None
NoVessel == [id |-> NoneStr]

\* A response of fetch_with_retry to a search: the parsed JSON with its
\* "entries", or None once the retries are used up.
Found(entries) == [ok |-> TRUE, entries |-> entries]
FetchFailed == [ok |-> FALSE, entries |-> <<>>]

\* data and data.get("entries") and len(data["entries"]) > 0
HasEntries(data) == data.ok /\ data.entries # <<>>

\* Python truthiness of an identifier read from the input row.
Given(x) == x \notin {NoneStr, ""}

(***************************************************************************)
(* lookup_vessel_by_identifiers (comprehensive_vessel_analysis.py)          *)
(***************************************************************************)
\* any(reg.get("imo") == str(imo) for reg in registry_info)
RegistryNames(entry, imo) ==
    \E k \in 1..Len(entry.registryInfo.recs) : entry.registryInfo.recs[k].imo = imo

\* Lines 71-80: the scan of the name candidates.  A candidate whose
\* registryInfo is a list and names the IMO is taken and the scan goes on
\* (the break leaves only the inner loop); a candidate whose registryInfo is
\* a dict and names the IMO is taken and ends the scan.
RECURSIVE ScanCandidates(_, _, _, _)
ScanCandidates(entries, i, imo, taken) ==
    IF i > Len(entries) THEN taken
    ELSE LET entry == entries[i] IN
         IF entry.registryInfo.shape = "list" /\ entry.registryInfo.recs # <<>>
         THEN ScanCandidates(entries, i + 1, imo,
                IF RegistryNames(entry, imo) THEN entry ELSE taken)
         ELSE IF entry.registryInfo.shape = "dict" /\ RegistryNames(entry, imo)
         THEN entry
         ELSE ScanCandidates(entries, i + 1, imo, taken)

\* Lines 59-63.
ByImo(imo, forImo) ==
    IF Given(imo) /\ HasEntries(forImo) THEN forImo.entries[1] ELSE NoVessel

\* Mutant: the name candidates are not scanned for the IMO.
ByName_firstOnly(taken, imo, name, forName) ==
    IF taken = NoVessel /\ Given(name) /\ name # "Unknown" /\ HasEntries(forName)
    THEN forName.entries[1]
    ELSE taken

\* Lines 65-83, entered with the outcome of the IMO strategy.
ByName(taken, imo, name, forName) ==
    IF taken = NoVessel /\ Given(name) /\ name # "Unknown" /\ HasEntries(forName)
    THEN LET matched == IF Given(imo)
                        THEN ScanCandidates(forName.entries, 1, imo, NoVessel)
                        ELSE NoVessel
         IN IF matched = NoVessel THEN forName.entries[1] ELSE matched
    ELSE taken

\* Lines 85-89, entered with the outcome of the first two strategies.
BySsid(taken, id, forId) ==
    IF taken = NoVessel /\ Given(id) /\ forId.ok
    THEN forId.record
    ELSE taken

\* Mutant: the name strategy does not test whether the IMO strategy matched.
lookup_vessel_by_identifiers_nameAlways(imo, name, id, forImo, forName, forId) ==
    LET byImo == ByImo(imo, forImo)
        byName == ByName(NoVessel, imo, name, forName)
        picked == IF byName = NoVessel THEN byImo ELSE byName
        bySsid == BySsid(picked, id, forId)
    IN [vessel_data |-> bySsid,
        ssid_found |-> bySsid.id,
        queried |-> (IF Given(imo) THEN <<"imo">> ELSE <<>>)
                    \o (IF Given(name) /\ name # "Unknown" THEN <<"name">> ELSE <<>>)
                    \o (IF picked = NoVessel /\ Given(id) THEN <<"ssid">> ELSE <<>>),
        returned |-> TRUE]

\* The whole function: the record it returns, the id it extracts, and the
\* lookups it issued, in order.
lookup_vessel_by_identifiers(imo, name, id, forImo, forName, forId) ==
    LET byImo == ByImo(imo, forImo)
        byName == ByName(byImo, imo, name, forName)
        bySsid == BySsid(byName, id, forId)
    IN [vessel_data |-> bySsid,
        ssid_found |-> bySsid.id,
        queried |-> (IF Given(imo) THEN <<"imo">> ELSE <<>>)
                    \o (IF byImo = NoVessel /\ Given(name) /\ name # "Unknown"
                        THEN <<"name">> ELSE <<>>)
                    \o (IF byName = NoVessel /\ Given(id) THEN <<"ssid">> ELSE <<>>),
        returned |-> TRUE]

(***************************************************************************)
(* lookup_vessel (Senegal_Foreign_Fleet_Checker.py)                         *)
(***************************************************************************)
\* Lines 69-76: the first candidate, in upstream order, whose registryInfo
\* names the IMO is returned at once.
RECURSIVE FirstCandidate(_, _, _)
FirstCandidate(entries, i, imo) ==
    IF i > Len(entries) THEN NoVessel
    ELSE LET entry == entries[i] IN
         IF entry.registryInfo.shape = "list" /\ entry.registryInfo.recs # <<>>
            /\ RegistryNames(entry, imo)
         THEN entry
         ELSE IF entry.registryInfo.shape = "dict" /\ RegistryNames(entry, imo)
         THEN entry
         ELSE FirstCandidate(entries, i + 1, imo)

lookup_vessel(imo, name, id, forImo, forName, forId) ==
    IF Given(imo) /\ HasEntries(forImo)
    THEN [vessel_data |-> forImo.entries[1], queried |-> <<"imo">>, returned |-> TRUE]
    ELSE LET q1 == IF Given(imo) THEN <<"imo">> ELSE <<>> IN
         IF Given(name) /\ name # "Unknown"
         THEN IF HasEntries(forName)
              THEN LET matched == IF Given(imo)
                                  THEN FirstCandidate(forName.entries, 1, imo)
                                  ELSE NoVessel
                   IN [vessel_data |-> IF matched = NoVessel
                                       THEN forName.entries[1] ELSE matched,
                       queried |-> q1 \o <<"name">>, returned |-> TRUE]
              ELSE IF Given(id)
                   THEN [vessel_data |-> IF forId.ok THEN forId.record ELSE NoVessel,
                         queried |-> q1 \o <<"name", "ssid">>, returned |-> TRUE]
                   ELSE [vessel_data |-> NoVessel,
                         queried |-> q1 \o <<"name">>, returned |-> TRUE]
         ELSE IF Given(id)
              THEN [vessel_data |-> IF forId.ok THEN forId.record ELSE NoVessel,
                    queried |-> q1 \o <<"ssid">>, returned |-> TRUE]
              ELSE [vessel_data |-> NoVessel, queried |-> q1, returned |-> TRUE]

(***************************************************************************)
(* Inputs of the lookups                                                    *)
(***************************************************************************)
MaxEntries == 2     \* entries in one search response

\* The registry number of the row, and another vessel's.
RowImo == "9000001"
OtherImo == "9000002"

NoSelfReported == SelfReported(NoneStr, NoneStr, NoneStr)
RegistryWithImo(imo) == Registry(imo, NoneStr, NoneStr, None, None)

\* Candidates of a search: with a registryInfo that is a list naming the
\* row's IMO, a dict naming it, or a list naming another vessel's; and a
\* second vessel, told apart by its id, whose list names the row's IMO too.
LookupEntries ==
    {Vessel("v1", InfoDict(NoSelfReported), reg, <<>>) :
        reg \in {InfoList(<<RegistryWithImo(OtherImo), RegistryWithImo(RowImo)>>),
                 InfoDict(RegistryWithImo(RowImo)),
                 InfoList(<<RegistryWithImo(OtherImo)>>)}}
    \cup
    {Vessel("v2", InfoDict(NoSelfReported),
            InfoList(<<RegistryWithImo(OtherImo), RegistryWithImo(RowImo)>>), <<>>)}

SearchResponses ==
    {FetchFailed} \cup UNION {{Found(es) : es \in [1..k -> LookupEntries]} : k \in 0..MaxEntries}

\* The record /vessels/{id} returns.
ById == Vessel("v3", InfoDict(NoSelfReported), InfoAbsent, <<>>)
IdResponses == {[ok |-> FALSE, record |-> NoVessel], [ok |-> TRUE, record |-> ById]}

NotCalled == [vessel_data |-> NoVessel, queried |-> <<>>, returned |-> FALSE]

InputIdle ==
    /\ row_imo = NoneStr
    /\ row_name = NoneStr
    /\ row_ssid = NoneStr
    /\ imoResp = FetchFailed
    /\ nameResp = FetchFailed
    /\ idResp = [ok |-> FALSE, record |-> NoVessel]

LookupIdle ==
    /\ comp_lookup = NotCalled
    /\ fleet_lookup = NotCalled

LookupInit ==
    /\ row_imo \in {NoneStr, RowImo}
    /\ row_name \in {NoneStr, "Unknown", "ALPHA"}
    /\ \E p \in {<<NoneStr, 1>>, <<"v3", 1>>, <<"v3", 2>>} :
          /\ row_ssid = p[1]
          /\ idResp = IF p[2] = 1 THEN [ok |-> FALSE, record |-> NoVessel]
                      ELSE [ok |-> TRUE, record |-> ById]
    /\ imoResp \in SearchResponses
    /\ nameResp \in SearchResponses
    /\ LookupIdle

\* comprehensive_vessel_analysis.py: one call of lookup_vessel_by_identifiers.
LookupComprehensive ==
    /\ ~comp_lookup.returned
    /\ comp_lookup' = lookup_vessel_by_identifiers(row_imo, row_name, row_ssid,
                                                   imoResp, nameResp, idResp)
    /\ UNCHANGED <<fleet_lookup, inputVars>>
    /\ UNCHANGED notLookupVars

\* Senegal_Foreign_Fleet_Checker.py: one call of lookup_vessel.
LookupFleet ==
    /\ ~fleet_lookup.returned
    /\ fleet_lookup' = lookup_vessel(row_imo, row_name, row_ssid,
                                     imoResp, nameResp, idResp)
    /\ UNCHANGED <<comp_lookup, inputVars>>
    /\ UNCHANGED notLookupVars

LookupNext == LookupComprehensive \/ LookupFleet

(***************************************************************************)
(* comprehensive_vessel_analysis.py: configuration                          *)
(***************************************************************************)
FISHING_HOURS_THRESHOLD == 200
ENGINE_POWER_THRESHOLD == 3000
VESSEL_LENGTH_THRESHOLD == 50
FOREIGN_PORT_VISIT_PCT == 30    \* FOREIGN_PORT_VISIT_THRESHOLD = 0.3, in hundredths
AIS_GAP_THRESHOLD == 48

HomeFlag == "SEN"

\* Python truthiness of a number read from a record: None and 0 are falsy.
TruthyNum(x) == x # None /\ x # 0

\* "a or b" on strings and on numbers.
\* Mutant: plain assignment, the new value whatever it is.
OrStr_assign(a, b) == a

OrStr(a, b) == IF Given(a) THEN a ELSE b
OrNum(a, b) == IF TruthyNum(a) THEN a ELSE b

\* round(n / d, k) as an integer count of the last kept decimal: the quotient
\* n / d rounded to the nearest integer, ties to even.
\* Mutant: the quotient cut off instead of rounded.
RoundDiv_floor(n, d) == n \div d

RoundDiv(n, d) ==
    LET q == n \div d
        r == n % d
    IN IF 2 * r < d THEN q
       ELSE IF 2 * r > d THEN q + 1
       ELSE IF q % 2 = 0 THEN q ELSE q + 1

(***************************************************************************)
(* extract_vessel_details                                                   *)
(***************************************************************************)
BlankDetails(id) ==
    [ssid |-> id, name |-> "Unknown", flag |-> NoneStr, length |-> None,
     engine_power |-> None, tonnage |-> None, gear_type |-> NoneStr,
     ship_type |-> NoneStr, ownership |-> <<>>]

\* Lines 166-175: the first self-reported sub-record of a list, or the dict.
FromSelfReported(d, srep) ==
    IF srep.recs = <<>> THEN d
    ELSE LET r == srep.recs[1] IN
         [d EXCEPT !.name = OrStr(r.shipname, @),
                   !.flag = OrStr(r.flag, @),
                   !.ship_type = OrStr(r.shiptype, @)]

\* Lines 183-188 (and 190-195): one registry sub-record.
FromRegistryEntry(d, entry) ==
    [d EXCEPT !.name = OrStr(entry.vesselName, @),
              !.flag = OrStr(entry.flag, @),
              !.length = OrNum(entry.lengthMeters, @),
              !.engine_power = OrNum(entry.enginePowerKw, @),
              !.tonnage = OrNum(entry.grossTonnage, @),
              !.gear_type = OrStr(entry.gearType, @)]

\* Lines 178-195: every registry sub-record in order.
RECURSIVE FromRegistry(_, _, _)
FromRegistry(d, recs, k) ==
    IF k > Len(recs) THEN d
    ELSE FromRegistry(FromRegistryEntry(d, recs[k]), recs, k + 1)

\* Lines 198-210: the owners with a name and a country, as "name (country)".
RECURSIVE OwnerData(_)
OwnerData(owners) ==
    IF owners = <<>> THEN <<>>
    ELSE LET owner == owners[1] IN
         IF Given(owner.country) /\ owner.name # <<>>
         THEN <<owner>> \o OwnerData(Tail(owners))
         ELSE OwnerData(Tail(owners))

extract_vessel_details(vd) ==
    IF vd = NoVessel THEN BlankDetails(NoneStr)
    ELSE LET d0 == BlankDetails(vd.id)
             d1 == FromSelfReported(d0, vd.selfReportedInfo)
             d2 == FromRegistry(d1, vd.registryInfo.recs, 1)
         IN [d2 EXCEPT !.ownership = OwnerData(vd.ownerOperatorInfo)]

(***************************************************************************)
(* Event feeds and the fetch_* functions                                    *)
(*                                                                          *)
(* A feed is what the upstream holds for one vessel and one category; every *)
(* feed of this specification fits in one page of 100 records.  The fetch   *)
(* returns the entries, or the empty list when fetch_with_retry gave up.    *)
(***************************************************************************)
Feed(entries) == [ok |-> TRUE, entries |-> entries]
FeedDown == [ok |-> FALSE, entries |-> <<>>]

\* fetch_fishing_events, fetch_port_visits, fetch_ais_gaps, fetch_encounters
\* and get_flag_history on a feed shorter than a page.
fetch_events(feed) == IF feed.ok THEN feed.entries ELSE <<>>

NoData == [missing |-> TRUE]

\* datetime.fromisoformat(ts.replace("Z", "")): both encodings parse; a
\* malformed, empty or null string raises.
Parses(ts) == ts.fmt \in {"ms", "s"}

\* Lines 457-465: the seconds the loop adds up; an event whose stamps are
\* missing or raise is skipped.
RECURSIVE DurationSum(_)
DurationSum(evs) ==
    IF evs = <<>> THEN 0
    ELSE LET event == evs[1] IN
         IF event.start.fmt # "missing" /\ event.end.fmt # "missing"
            /\ Parses(event.start) /\ Parses(event.end)
         THEN (event.end.t - event.start.t) + DurationSum(Tail(evs))
         ELSE DurationSum(Tail(evs))

\* analyze_fishing_activity; hours are kept in tenths, as round(x, 1) leaves
\* them.
analyze_fishing_activity(fishing_events) ==
    IF fishing_events = <<>>
    THEN [total_hours |-> 0, events_count |-> 0, avg_duration_hours |-> 0]
    ELSE [total_hours |-> RoundDiv(DurationSum(fishing_events), 360),
          events_count |-> Len(fishing_events),
          avg_duration_hours |->
              RoundDiv(DurationSum(fishing_events), 360 * Len(fishing_events))]

\* analyze_port_visits; a visit is its anchorage flag (NoneStr without one),
\* the percentage is kept in hundredths, as round(x, 2) leaves it.
analyze_port_visits(port_visits) ==
    IF port_visits = <<>>
    THEN [total_visits |-> 0, foreign_visits |-> 0, foreign_visit_pct |-> 0]
    ELSE LET total_visits == Len(port_visits)
             senegal_visits ==
                 Cardinality({i \in 1..total_visits : port_visits[i] = HomeFlag})
             foreign_visits == total_visits - senegal_visits
         IN [total_visits |-> total_visits,
             foreign_visits |-> foreign_visits,
             foreign_visit_pct |-> RoundDiv(100 * foreign_visits, total_visits)]

\* Lines 395-408: the durations, in seconds, of the gaps that parse.
RECURSIVE GapSeconds(_)
GapSeconds(gaps) ==
    IF gaps = <<>> THEN <<>>
    ELSE LET gap == gaps[1] IN
         IF gap.start.fmt # "missing" /\ gap.end.fmt # "missing"
            /\ Parses(gap.start) /\ Parses(gap.end)
         THEN <<gap.end.t - gap.start.t>> \o GapSeconds(Tail(gaps))
         ELSE GapSeconds(Tail(gaps))

RECURSIVE SeqSum(_)
SeqSum(s) == IF s = <<>> THEN 0 ELSE s[1] + SeqSum(Tail(s))

RECURSIVE SeqMax(_)
SeqMax(s) == IF s = <<>> THEN 0 ELSE Max(s[1], SeqMax(Tail(s)))

\* analyze_ais_gaps; a gap is suspicious when it lasts more than
\* AIS_GAP_THRESHOLD hours.
analyze_ais_gaps(ais_gaps) ==
    IF ais_gaps = <<>>
    THEN [total_gaps |-> 0, total_gap_hours |-> 0, max_gap_hours |-> 0,
          suspicious_gaps |-> 0]
    ELSE LET secs == GapSeconds(ais_gaps)
         IN [total_gaps |-> Len(ais_gaps),
             total_gap_hours |-> RoundDiv(SeqSum(secs), 360),
             max_gap_hours |-> RoundDiv(SeqMax(secs), 360),
             suspicious_gaps |->
                 Cardinality({i \in 1..Len(secs) :
                                 secs[i] > AIS_GAP_THRESHOLD * SecondsPerHour})]

\* analyze_encounters; an encounter is the flag of the other vessel (NoneStr
\* without one).
analyze_encounters(encounters) ==
    IF encounters = <<>>
    THEN [total_encounters |-> 0, foreign_encounters |-> 0]
    ELSE [total_encounters |-> Len(encounters),
          foreign_encounters |->
              Cardinality({i \in 1..Len(encounters) :
                              encounters[i] # NoneStr /\ encounters[i] # HomeFlag})]

\* analyze_flag_history; an entry is its flag.
analyze_flag_history(flag_history) ==
    IF flag_history = <<>>
    THEN [flag_changes |-> 0, previous_flags |-> {}]
    ELSE [flag_changes |-> Len(flag_history) - 1,
          previous_flags |->
              {flag_history[i] : i \in 1..Len(flag_history)} \ {HomeFlag}]

(***************************************************************************)
(* comprehensive_vessel_analysis: the rule cascade                          *)
(***************************************************************************)
Genuine == "Genuine Senegalese"

\* Mutant: the not-found return is missing.
IsNotFound_never(vd) == FALSE

\* Line 514: "if not vessel_data".
IsNotFound(vd) == vd = NoVessel

\* Mutant: a secondary rule sets Suspect whatever the label was.
Escalate_always(label) == "Suspect"

\* Mutant: a secondary rule toggles the label between Genuine Senegalese and
\* Suspect.
Escalate_toggle(label) ==
    IF label = Genuine THEN "Suspect"
    ELSE IF label = "Suspect" THEN Genuine
    ELSE label

\* Lines 578-579 (and 584-585, 589-590, ...): a secondary rule lifts the
\* label only from Genuine Senegalese.
Escalate(label) == IF label = Genuine THEN "Suspect" ELSE label

\* Mutant: the secondary rules sit in the else branch of the flag rule.
SecondaryRule_unlessForeign(holds, reason, label, rs) ==
    IF holds /\ label # "Foreign"
    THEN [classification |-> Escalate(label), reasons |-> Append(rs, reason)]
    ELSE [classification |-> label, reasons |-> rs]

\* One secondary rule: when its condition holds the label is escalated and
\* the reason appended.
SecondaryRule(holds, reason, label, rs) ==
    IF holds
    THEN [classification |-> Escalate(label), reasons |-> Append(rs, reason)]
    ELSE [classification |-> label, reasons |-> rs]

\* Line 572.
FlagMismatch(d) == Given(d.flag) /\ d.flag # HomeFlag
\* Line 577.
HasPreviousFlags(fh) == fh # NoData /\ fh.previous_flags # {}
\* Line 583.
HighEnginePower(d) == TruthyNum(d.engine_power) /\ d.engine_power > ENGINE_POWER_THRESHOLD
\* Line 588.
LargeLength(d) == TruthyNum(d.length) /\ d.length > VESSEL_LENGTH_THRESHOLD
\* Line 594; total_hours is in tenths of an hour.
LowFishing(fd) == fd # NoData /\ fd.total_hours < 10 * FISHING_HOURS_THRESHOLD
\* Line 600.
MostlyForeignPorts(pd) == pd # NoData /\ pd.foreign_visit_pct > FOREIGN_PORT_VISIT_PCT
\* Line 606.
HasSuspiciousGaps(gd) == gd # NoData /\ gd.suspicious_gaps > 0

\* "word in owner_info or (code) in owner_info" on the lower-cased ownership
\* string "name (country); name (country)".
OwnershipMentions(ownership, word, code) ==
    \E k \in 1..Len(ownership) :
        \/ InSeq(word, ownership[k].name)
        \/ ownership[k].country = code

\* Lines 612-621.
OwnerCountryOf(ownership) ==
    IF ownership = <<>> THEN NoneStr
    ELSE IF OwnershipMentions(ownership, "spain", "ESP") THEN "ESP"
    ELSE IF OwnershipMentions(ownership, "china", "CHN") THEN "CHN"
    ELSE IF OwnershipMentions(ownership, "france", "FRA") THEN "FRA"
    ELSE NoneStr

\* Line 623.
ForeignOwner(country) == Given(country) /\ country # HomeFlag

\* Lines 515-534.
UnknownResult(imo, name) ==
    [IMO |-> imo, VesselName |-> name, SSID |-> NoneStr, Flag |-> NoneStr,
     Classification |-> "Unknown",
     Reasons |-> <<"No vessel data found in GFW database">>,
     FishingHours |-> None, OwnerCountry |-> NoneStr]

\* Lines 629-653.
CompiledResult(imo, name, id, d, label, rs, fd, country) ==
    [IMO |-> imo,
     VesselName |-> IF d.name # "Unknown" THEN d.name ELSE name,
     SSID |-> id, Flag |-> d.flag,
     Classification |-> label,
     Reasons |-> IF rs # <<>> THEN rs ELSE <<"No suspicious indicators">>,
     FishingHours |-> IF fd # NoData THEN fd.total_hours ELSE None,
     OwnerCountry |-> country]

(***************************************************************************)
(* Inputs of one analysis                                                   *)
(***************************************************************************)
Hours(h) == SecondsPerHour * h
Span(s, e) == Event(Stamp("ms", s), Stamp("ms", e))

\* The vessel the upstream knows: with or without an id, flagged home,
\* abroad or not at all, small or large, owned at home, abroad or unknown.
AnalysisVessels ==
    {Vessel(x[1],
            InfoList(<<SelfReported("ALPHA", x[2], NoneStr)>>),
            InfoList(<<Registry(RowImo, NoneStr, NoneStr, x[3], x[4])>>),
            x[5]) :
        x \in {NoneStr, "v1"} \X {NoneStr, "SEN", "ESP"} \X {None, 60} \X {3000, 4000}
              \X {<<>>, <<Owner(<<"sopromar">>, "SEN")>>, <<Owner(<<"pesca">>, "ESP")>>}}

\* How the two searches answer: the IMO search finds the vessel; only the
\* name search does; both come back empty; both give up.
LookupAnswers(v) ==
    {<<Found(<<v>>), FetchFailed>>, <<Found(<<>>), Found(<<v>>)>>,
     <<Found(<<>>), Found(<<>>)>>, <<FetchFailed, FetchFailed>>}

\* Fishing: the fetch gives up; no event; 100 h; 199 h 58 min; two
\* overlapping events of 150 h and 140 h that cover 190 h; 300 h.
FishingFeeds ==
    {FeedDown, Feed(<<>>), Feed(<<Span(0, Hours(100))>>),
     Feed(<<Span(0, Hours(200) - 120)>>),
     Feed(<<Span(0, Hours(150)), Span(Hours(50), Hours(190))>>),
     Feed(<<Span(0, Hours(300))>>)}
PortFeeds == {Feed(<<>>), Feed(<<"SEN", "ESP">>)}
GapFeeds == {Feed(<<>>), Feed(<<Span(0, Hours(60))>>)}
EncounterFeeds == {Feed(<<>>), Feed(<<"ESP">>)}
FlagHistoryFeeds == {Feed(<<>>), Feed(<<"ESP", "SEN">>)}

AnalysisIdle ==
    /\ feeds = [fishing |-> FeedDown, ports |-> FeedDown, gaps |-> FeedDown,
                encounters |-> FeedDown, flags |-> FeedDown]
    /\ apc = "idle"
    /\ vessel_data = NoVessel
    /\ ssid = NoneStr
    /\ details = BlankDetails(NoneStr)
    /\ requests = <<>>
    /\ fishing_data = NoData
    /\ port_data = NoData
    /\ gap_data = NoData
    /\ encounter_data = NoData
    /\ flag_history_data = NoData
    /\ classification = NoneStr
    /\ reasons = <<>>
    /\ owner_country = NoneStr
    /\ result = NoData

AnalysisInit ==
    /\ row_imo = RowImo
    /\ row_name = "ALPHA"
    /\ row_ssid = NoneStr
    /\ idResp = [ok |-> FALSE, record |-> NoVessel]
    /\ \E v \in AnalysisVessels : \E a \in LookupAnswers(v) :
          imoResp = a[1] /\ nameResp = a[2]
    /\ feeds \in [fishing : FishingFeeds, ports : PortFeeds, gaps : GapFeeds,
                  encounters : EncounterFeeds, flags : FlagHistoryFeeds]
    /\ apc = "lookup"
    /\ vessel_data = NoVessel
    /\ ssid = NoneStr
    /\ details = BlankDetails(NoneStr)
    /\ requests = <<>>
    /\ fishing_data = NoData
    /\ port_data = NoData
    /\ gap_data = NoData
    /\ encounter_data = NoData
    /\ flag_history_data = NoData
    /\ classification = NoneStr
    /\ reasons = <<>>
    /\ owner_country = NoneStr
    /\ result = NoData

\* Every analysis action leaves the row, the upstream and the other
\* components alone.
AnalysisFrame == UNCHANGED <<inputVars, feeds, notAnalysisVars>>

\* Line 512.
FindVessel ==
    /\ apc = "lookup"
    /\ LET found == lookup_vessel_by_identifiers(row_imo, row_name, NoneStr,
                                                 imoResp, nameResp, idResp)
       IN /\ vessel_data' = found.vessel_data
          /\ ssid' = found.ssid_found
    /\ apc' = "found"
    /\ UNCHANGED <<details, signalVars, cascadeVars, result>>
    /\ AnalysisFrame

\* Lines 514-534.
ReturnUnknown ==
    /\ apc = "found"
    /\ IsNotFound(vessel_data)
    /\ result' = UnknownResult(row_imo, row_name)
    /\ apc' = "done"
    /\ UNCHANGED <<foundVars, details, signalVars, cascadeVars>>
    /\ AnalysisFrame

\* Line 537.
ExtractDetails ==
    /\ apc = "found"
    /\ ~IsNotFound(vessel_data)
    /\ details' = extract_vessel_details(vessel_data)
    /\ apc' = "collect"
    /\ UNCHANGED <<foundVars, signalVars, cascadeVars, result>>
    /\ AnalysisFrame

\* Lines 544-565: with an id, every category is fetched and analysed; without
\* one, every bundle stays None.
CollectSignals ==
    /\ apc = "collect"
    /\ IF Given(ssid)
       THEN /\ requests' = requests \o <<"fishing", "port-visits", "gaps",
                                         "encounters", "flag-history">>
            /\ fishing_data' = analyze_fishing_activity(fetch_events(feeds.fishing))
            /\ port_data' = analyze_port_visits(fetch_events(feeds.ports))
            /\ gap_data' = analyze_ais_gaps(fetch_events(feeds.gaps))
            /\ encounter_data' = analyze_encounters(fetch_events(feeds.encounters))
            /\ flag_history_data' = analyze_flag_history(fetch_events(feeds.flags))
       ELSE UNCHANGED signalVars
    /\ apc' = "check_flag"
    /\ UNCHANGED <<foundVars, details, cascadeVars, result>>
    /\ AnalysisFrame

\* Lines 568-574.
CheckFlag ==
    /\ apc = "check_flag"
    /\ IF FlagMismatch(details)
       THEN /\ classification' = "Foreign"
            /\ reasons' = <<"Non-Senegalese flag">>
       ELSE /\ classification' = Genuine
            /\ reasons' = <<>>
    /\ apc' = "check_flag_history"
    /\ UNCHANGED <<foundVars, details, signalVars, owner_country, result>>
    /\ AnalysisFrame

\* A secondary rule as a step of the cascade.
CascadeStep(from, to, holds, reason) ==
    /\ apc = from
    /\ LET after == SecondaryRule(holds, reason, classification, reasons)
       IN /\ classification' = after.classification
          /\ reasons' = after.reasons
    /\ apc' = to

\* Lines 577-580.
CheckFlagHistory ==
    /\ CascadeStep("check_flag_history", "check_engine_power",
                   HasPreviousFlags(flag_history_data), "Previous flags")
    /\ UNCHANGED <<foundVars, details, signalVars, owner_country, result>>
    /\ AnalysisFrame

\* Lines 583-586.
CheckEnginePower ==
    /\ CascadeStep("check_engine_power", "check_length",
                   HighEnginePower(details), "High engine power")
    /\ UNCHANGED <<foundVars, details, signalVars, owner_country, result>>
    /\ AnalysisFrame

\* Lines 588-591.
CheckLength ==
    /\ CascadeStep("check_length", "check_fishing",
                   LargeLength(details), "Large vessel length")
    /\ UNCHANGED <<foundVars, details, signalVars, owner_country, result>>
    /\ AnalysisFrame

\* Lines 594-597.
CheckFishing ==
    /\ CascadeStep("check_fishing", "check_port_visits",
                   LowFishing(fishing_data), "Low fishing activity")
    /\ UNCHANGED <<foundVars, details, signalVars, owner_country, result>>
    /\ AnalysisFrame

\* Lines 600-603.
CheckPortVisits ==
    /\ CascadeStep("check_port_visits", "check_ais_gaps",
                   MostlyForeignPorts(port_data), "Predominantly visits foreign ports")
    /\ UNCHANGED <<foundVars, details, signalVars, owner_country, result>>
    /\ AnalysisFrame

\* Lines 606-609.
CheckAisGaps ==
    /\ CascadeStep("check_ais_gaps", "check_ownership",
                   HasSuspiciousGaps(gap_data), "Suspicious AIS gaps")
    /\ UNCHANGED <<foundVars, details, signalVars, owner_country, result>>
    /\ AnalysisFrame

\* Lines 612-626.
CheckOwnership ==
    /\ owner_country' = OwnerCountryOf(details.ownership)
    /\ CascadeStep("check_ownership", "compile",
                   ForeignOwner(OwnerCountryOf(details.ownership)), "Foreign ownership")
    /\ UNCHANGED <<foundVars, details, signalVars, result>>
    /\ AnalysisFrame

\* Lines 629-655.
CompileResult ==
    /\ apc = "compile"
    /\ result' = CompiledResult(row_imo, row_name, ssid, details, classification,
                                reasons, fishing_data, owner_country)
    /\ apc' = "done"
    /\ UNCHANGED <<foundVars, details, signalVars, cascadeVars>>
    /\ AnalysisFrame

AnalysisNext ==
    \/ FindVessel \/ ReturnUnknown \/ ExtractDetails \/ CollectSignals
    \/ CheckFlag \/ CheckFlagHistory \/ CheckEnginePower \/ CheckLength
    \/ CheckFishing \/ CheckPortVisits \/ CheckAisGaps \/ CheckOwnership
    \/ CompileResult

(***************************************************************************)
(* main(): ThreadPoolExecutor, as_completed and the results list            *)
(*                                                                          *)
(* Every row is submitted before the collecting loop starts.  A future is   *)
(* queued, running, and then holds a return value or an exception; the loop *)
(* takes the finished futures in the order they finish.                     *)
(***************************************************************************)
MaxRows == 3        \* rows in the input file
PoolSize == 2       \* max_workers of the executor

Scripts == {"comprehensive_vessel_analysis", "Senegal_Foreign_Fleet_Checker",
            "Superthrawler_Checker", "intergrated_analysis"}

\* The mains whose loop wraps future.result() in try/except.
CatchesTaskErrors(sc) ==
    sc \in {"comprehensive_vessel_analysis", "Senegal_Foreign_Fleet_Checker"}

Rows == DOMAIN task
Running == {r \in Rows : task[r] = "running"}

\* The dict the except branch appends for the row.
ErrorResult(r) == [row |-> r, Classification |-> "Error"]
\* The dict the task returned for the row.
TaskResult(r) == [row |-> r, Classification |-> "Classified"]

BatchIdle ==
    /\ script = "none"
    /\ task = <<>>
    /\ results = <<>>
    /\ bpc = "idle"
    /\ raised = {}

BatchInit ==
    /\ script \in Scripts
    /\ \E n \in 1..MaxRows : task = [r \in 1..n |-> "queued"]
    /\ results = <<>>
    /\ bpc = "collecting"
    /\ raised = {}

\* A free worker thread takes a queued task.
StartTask(r) ==
    /\ task[r] = "queued"
    /\ Cardinality(Running) < PoolSize
    /\ task' = [task EXCEPT ![r] = "running"]
    /\ UNCHANGED <<script, results, bpc, raised>>
    /\ UNCHANGED notBatchVars

\* The task function returns its dict.
TaskReturns(r) ==
    /\ task[r] = "running"
    /\ task' = [task EXCEPT ![r] = "returned"]
    /\ UNCHANGED <<script, results, bpc, raised>>
    /\ UNCHANGED notBatchVars

\* The task function raises.
TaskRaises(r) ==
    /\ task[r] = "running"
    /\ task' = [task EXCEPT ![r] = "raised"]
    /\ raised' = raised \cup {r}
    /\ UNCHANGED <<script, results, bpc>>
    /\ UNCHANGED notBatchVars

\* One pass of the loop over as_completed for a future that holds a value:
\* result = future.result(); results.append(result).
CollectResult(r) ==
    /\ bpc = "collecting"
    /\ task[r] = "returned"
    /\ results' = Append(results, TaskResult(r))
    /\ task' = [task EXCEPT ![r] = "collected"]
    /\ UNCHANGED <<script, bpc, raised>>
    /\ UNCHANGED notBatchVars

\* One pass of the loop for a future that holds an exception, in the mains
\* that catch it: the except branch appends the Error dict.
CollectError(r) ==
    /\ bpc = "collecting"
    /\ task[r] = "raised"
    /\ CatchesTaskErrors(script)
    /\ results' = Append(results, ErrorResult(r))
    /\ task' = [task EXCEPT ![r] = "collected"]
    /\ UNCHANGED <<script, bpc, raised>>
    /\ UNCHANGED notBatchVars

\* The same pass in Superthrawler_Checker.main and in the retired
\* intergrated_analysis.main: future.result() re-raises,
\* the loop is left, and main ends without writing the results.
Propagate(r) ==
    /\ bpc = "collecting"
    /\ task[r] = "raised"
    /\ ~CatchesTaskErrors(script)
    /\ bpc' = "crashed"
    /\ task' = [task EXCEPT ![r] = "collected"]
    /\ UNCHANGED <<script, results, raised>>
    /\ UNCHANGED notBatchVars

\* The loop has seen every future: the results are written out.
SaveResults ==
    /\ bpc = "collecting"
    /\ \A r \in Rows : task[r] = "collected"
    /\ bpc' = "saved"
    /\ UNCHANGED <<script, task, results, raised>>
    /\ UNCHANGED notBatchVars

BatchNext ==
    \/ \E r \in Rows : StartTask(r)
    \/ \E r \in Rows : TaskReturns(r)
    \/ \E r \in Rows : TaskRaises(r)
    \/ \E r \in Rows : CollectResult(r)
    \/ \E r \in Rows : CollectError(r)
    \/ \E r \in Rows : Propagate(r)
    \/ SaveResults

(***************************************************************************)
(* fetch_fishing_events: the paging loop                                    *)
(*                                                                          *)
(* One request per pass.  The upstream answers a request by its offset; it  *)
(* answers every offset from MaxOffset on alike, so offset is kept up to    *)
(* MaxOffset.  pages and all_events keep their first MaxLog answers and     *)
(* MaxKept events, and passes counts modulo MaxLog + 1: a loop that never   *)
(* ends goes on with both full and the count wrapping round.                *)
(***************************************************************************)
PageLimit == 2      \* params["limit"]
MaxOffset == 2      \* offsets the upstream tells apart

MaxLog == MaxOffset + 3
MaxKept == PageLimit * MaxLog

Fetchers == {"comprehensive_vessel_analysis", "intergrated_analysis"}

Offsets == 0..MaxOffset

\* fetch_with_retry returned None (comprehensive), or the status was not 200
\* (retired).
GaveUp == [ok |-> FALSE, entries |-> <<>>, more |-> FALSE, nextOffset |-> 0]

\* A 200 answer: n entries, with or without "nextOffset".
Page(n, more, next) ==
    [ok |-> TRUE, entries |-> [i \in 1..n |-> Span(0, Hours(1))],
     more |-> more, nextOffset |-> next]

\* Empty, short and full pages.
PageSizes == {0, 1, PageLimit}

Answers ==
    {GaveUp} \cup {Page(n, FALSE, 0) : n \in PageSizes}
             \cup {Page(x[1], TRUE, x[2]) : x \in PageSizes \X Offsets}

\* The answer to the request the loop issues now.
Answer == upstream[offset]

\* The test that ends the loop after a page was added: line 250 of
\* comprehensive_vessel_analysis.py, line 130 of intergrated_analysis.py
\* (len(events) == 0 cannot hold there).
LastPage(f, data) ==
    IF f = "comprehensive_vessel_analysis"
    THEN ~data.more \/ Len(data.entries) < PageLimit
    ELSE ~data.more

\* The offset of the next request: line 252, and line 129 of the retired
\* script.
NextOffset(f, data, off) ==
    Min(IF f = "comprehensive_vessel_analysis" THEN data.nextOffset
        ELSE off + Len(data.entries),
        MaxOffset)

\* all_events.extend(events)
Extend(all, page) ==
    LET joined == all \o page
    IN SubSeq(joined, 1, Min(Len(joined), MaxKept))

Logged(log, data) == IF Len(log) < MaxLog THEN Append(log, data) ELSE log

\* One more request was issued.
Counted(n) == (n + 1) % (MaxLog + 1)

FetchIdle ==
    /\ fetcher = "none"
    /\ upstream = <<>>
    /\ offset = 0
    /\ all_events = <<>>
    /\ pages = <<>>
    /\ passes = 0
    /\ fpc = "idle"

FetchInit ==
    /\ fetcher \in Fetchers
    /\ upstream \in [Offsets -> Answers]
    /\ offset = 0
    /\ all_events = <<>>
    /\ pages = <<>>
    /\ passes = 0
    /\ fpc = "loop"

\* Lines 240-242 (retired 120-123): no data, the loop ends.
PageFails ==
    /\ fpc = "loop"
    /\ ~Answer.ok
    /\ pages' = Logged(pages, Answer)
    /\ passes' = Counted(passes)
    /\ fpc' = "done"
    /\ UNCHANGED <<fetcher, upstream, offset, all_events>>
    /\ UNCHANGED notFetchVars

\* Lines 244-246 (retired 125-127): no entries, the loop ends.
PageEmpty ==
    /\ fpc = "loop"
    /\ Answer.ok
    /\ Answer.entries = <<>>
    /\ pages' = Logged(pages, Answer)
    /\ passes' = Counted(passes)
    /\ fpc' = "done"
    /\ UNCHANGED <<fetcher, upstream, offset, all_events>>
    /\ UNCHANGED notFetchVars

\* Lines 248-251 (retired 128-131): the page is added and ends the loop.
PageLast ==
    /\ fpc = "loop"
    /\ Answer.ok
    /\ Answer.entries # <<>>
    /\ LastPage(fetcher, Answer)
    /\ all_events' = Extend(all_events, Answer.entries)
    /\ offset' = IF fetcher = "comprehensive_vessel_analysis" THEN offset
                 ELSE NextOffset(fetcher, Answer, offset)
    /\ pages' = Logged(pages, Answer)
    /\ passes' = Counted(passes)
    /\ fpc' = "done"
    /\ UNCHANGED <<fetcher, upstream>>
    /\ UNCHANGED notFetchVars

\* Lines 248-252 (retired 128-130): the page is added and the loop goes on
\* with the next offset.
PageMore ==
    /\ fpc = "loop"
    /\ Answer.ok
    /\ Answer.entries # <<>>
    /\ ~LastPage(fetcher, Answer)
    /\ all_events' = Extend(all_events, Answer.entries)
    /\ offset' = NextOffset(fetcher, Answer, offset)
    /\ pages' = Logged(pages, Answer)
    /\ passes' = Counted(passes)
    /\ UNCHANGED <<fetcher, upstream, fpc>>
    /\ UNCHANGED notFetchVars

FetchNext == PageFails \/ PageEmpty \/ PageLast \/ PageMore

(***************************************************************************)
(* extract_vessel_details on records with several sub-records               *)
(***************************************************************************)
MaxRegistry == 2    \* sub-records in registryInfo

\* A registry sub-record: its name, flag and length present, empty or
\* missing.
RegistryRecords ==
    {Registry(RowImo, x[1], x[2], x[3], None) :
        x \in {NoneStr, "BETA"} \X {NoneStr, "", "SEN", "ESP"} \X {None, 0, 40, 60}}

SelfReports ==
    {InfoAbsent} \cup
    {InfoList(<<SelfReported(x[1], x[2], NoneStr)>>) :
        x \in {NoneStr, "ALPHA"} \X {NoneStr, "SEN", "ESP"}}

\* The record the lookup returned is any vessel with an id, a self-reported
\* record or none, and up to MaxRegistry registry sub-records, as a list or,
\* for a single one, as a dict.
ExtractInit ==
    /\ \E srep \in SelfReports : \E k \in 0..MaxRegistry :
          \E recs \in [1..k -> RegistryRecords] : \E shape \in {"list", "dict"} :
             /\ shape = "dict" => k = 1
             /\ vessel_data =
                   Vessel("v1", srep,
                          IF shape = "dict" THEN InfoDict(recs[1]) ELSE InfoList(recs),
                          <<>>)
    /\ ssid = "v1"
    /\ apc = "found"
    /\ feeds = [fishing |-> FeedDown, ports |-> FeedDown, gaps |-> FeedDown,
                encounters |-> FeedDown, flags |-> FeedDown]
    /\ details = BlankDetails(NoneStr)
    /\ requests = <<>>
    /\ fishing_data = NoData
    /\ port_data = NoData
    /\ gap_data = NoData
    /\ encounter_data = NoData
    /\ flag_history_data = NoData
    /\ classification = NoneStr
    /\ reasons = <<>>
    /\ owner_country = NoneStr
    /\ result = NoData

\* Line 537 alone.
ExtractNext == ExtractDetails

(***************************************************************************)
(* The signal collection on port-visit feeds of every shape                 *)
(***************************************************************************)
MaxVisits == 4      \* port visits in the window

\* A visit is the flag of its anchorage: home, foreign, or none.
VisitFlags == {NoneStr, "SEN", "ESP"}

MaxActivity == 2    \* fishing events in the window

\* A fishing event: 100 h, 100 h overlapping the first by half, one whose
\* start is not a timestamp, one whose end is not.
ActivityEvents ==
    {Span(0, Hours(100)), Span(Hours(50), Hours(150)),
     Event(MalformedStamp, Stamp("ms", Hours(100))), Event(Stamp("s", 0), MalformedStamp)}

\* The vessel whose signals are collected.
SignalsVessel ==
    Vessel("v1", InfoList(<<SelfReported("ALPHA", "SEN", NoneStr)>>),
           InfoList(<<Registry(RowImo, NoneStr, NoneStr, None, None)>>), <<>>)

\* The analysis has found and extracted the vessel; the port-visit feed holds
\* up to MaxVisits visits, or its fetch gives up; the fishing feed holds up
\* to MaxActivity events; the other feeds are empty.
SignalsInit ==
    /\ \E k \in 0..MaxVisits : \E visits \in [1..k -> VisitFlags] :
          \E ports \in {Feed(visits), FeedDown} :
             \E n \in 0..MaxActivity : \E evs \in [1..n -> ActivityEvents] :
                feeds = [fishing |-> Feed(evs), ports |-> ports, gaps |-> Feed(<<>>),
                         encounters |-> Feed(<<>>), flags |-> Feed(<<>>)]
    /\ vessel_data = SignalsVessel
    /\ ssid = "v1"
    /\ details = extract_vessel_details(SignalsVessel)
    /\ apc = "collect"
    /\ requests = <<>>
    /\ fishing_data = NoData
    /\ port_data = NoData
    /\ gap_data = NoData
    /\ encounter_data = NoData
    /\ flag_history_data = NoData
    /\ classification = NoneStr
    /\ reasons = <<>>
    /\ owner_country = NoneStr
    /\ result = NoData

\* Lines 550-565 alone.
SignalsNext == CollectSignals

(***************************************************************************)
(* The rule cascades of comprehensive_vessel_analysis and of the fleet      *)
(* checker's analyze_vessel, on details and bundles of every kind           *)
(***************************************************************************)
\* The details the rules read.
CascadeDetails ==
    {[BlankDetails("v1") EXCEPT !.flag = x[1], !.engine_power = x[2],
                                !.length = x[3], !.ownership = x[4]] :
        x \in {NoneStr, "SEN", "ESP"} \X {None, 3000, 4000} \X {None, 40, 60}
              \X {<<>>, <<Owner(<<"pesca">>, "ESP")>>}}

\* The bundles the rules read: none without a vessel id, else one of each.
CascadeSignals ==
    {[fishing |-> NoData, ports |-> NoData, gaps |-> NoData, flags |-> NoData]}
    \cup
    {[fishing |-> analyze_fishing_activity(x[1]), ports |-> analyze_port_visits(x[2]),
      gaps |-> analyze_ais_gaps(x[3]), flags |-> analyze_flag_history(x[4])] :
        x \in {<<>>, <<Span(0, Hours(300))>>} \X {<<>>, <<"ESP">>}
              \X {<<>>, <<Span(0, Hours(60))>>} \X {<<>>, <<"ESP", "SEN">>}}

\* Either function has extracted the details and collected its signals and
\* is about to classify (line 567; line 265 of the fleet checker).
CascadeInit ==
    /\ apc \in {"check_flag", "fleet_flag"}
    /\ details \in CascadeDetails
    /\ \E sig \in CascadeSignals :
          /\ fishing_data = sig.fishing
          /\ port_data = sig.ports
          /\ gap_data = sig.gaps
          /\ flag_history_data = sig.flags
          /\ encounter_data = NoData
    /\ feeds = [fishing |-> FeedDown, ports |-> FeedDown, gaps |-> FeedDown,
                encounters |-> FeedDown, flags |-> FeedDown]
    /\ vessel_data = NoVessel
    /\ ssid = "v1"
    /\ requests = <<>>
    /\ classification = NoneStr
    /\ reasons = <<>>
    /\ owner_country = NoneStr
    /\ result = NoData

\* Senegal_Foreign_Fleet_Checker.py lines 265-271.
FleetCheckFlag ==
    /\ apc = "fleet_flag"
    /\ IF FlagMismatch(details)
       THEN /\ classification' = "Foreign"
            /\ reasons' = <<"Non-Senegalese flag">>
       ELSE /\ classification' = Genuine
            /\ reasons' = <<>>
    /\ apc' = "fleet_flag_history"
    /\ UNCHANGED <<foundVars, details, signalVars, owner_country, result>>
    /\ AnalysisFrame

\* Lines 273-282.
FleetCheckFlagHistory ==
    /\ CascadeStep("fleet_flag_history", "fleet_fishing",
                   HasPreviousFlags(flag_history_data), "Previous flags")
    /\ UNCHANGED <<foundVars, details, signalVars, owner_country, result>>
    /\ AnalysisFrame

\* Lines 285-289.
FleetCheckFishing ==
    /\ CascadeStep("fleet_fishing", "fleet_engine_power",
                   LowFishing(fishing_data), "Low fishing activity")
    /\ UNCHANGED <<foundVars, details, signalVars, owner_country, result>>
    /\ AnalysisFrame

\* Lines 292-295.
FleetCheckEnginePower ==
    /\ CascadeStep("fleet_engine_power", "fleet_length",
                   HighEnginePower(details), "High engine power")
    /\ UNCHANGED <<foundVars, details, signalVars, owner_country, result>>
    /\ AnalysisFrame

\* Lines 297-300.
FleetCheckLength ==
    /\ CascadeStep("fleet_length", "fleet_return",
                   LargeLength(details), "Large vessel length")
    /\ UNCHANGED <<foundVars, details, signalVars, owner_country, result>>
    /\ AnalysisFrame

CascadeNext ==
    \/ CheckFlag
    \/ CheckFlagHistory
    \/ CheckEnginePower
    \/ CheckLength
    \/ CheckFishing
    \/ CheckPortVisits
    \/ CheckAisGaps
    \/ CheckOwnership
    \/ FleetCheckFlag
    \/ FleetCheckFlagHistory
    \/ FleetCheckFishing
    \/ FleetCheckEnginePower
    \/ FleetCheckLength

(***************************************************************************)
(* fetch_with_retry (comprehensive_vessel_analysis.py lines 31-53; the      *)
(* fleet checker's, lines 24-48, is the same code)                          *)
(***************************************************************************)
MAX_RETRIES == 3
RETRY_DELAY == 2

\* What one attempt meets: status 200 with a JSON body, status 200 with a
\* body response.json() rejects, status 429, another status, or an exception
\* raised by requests.get.
Outcomes == {"ok", "bad_json", "rate_limited", "error", "exception"}

Attempts == 0..(MAX_RETRIES - 1)

\* Mutant: a rate-limit response waits the fixed delay.
Backoff_fixed(outcome, k) ==
    IF outcome = "rate_limited" THEN RETRY_DELAY
    ELSE IF k < MAX_RETRIES - 1 THEN RETRY_DELAY
    ELSE 0

\* The seconds slept after attempt k failed: lines 40-43 on status 429,
\* lines 46-47 on another status, lines 50-51 on an exception.
Backoff(outcome, k) ==
    IF outcome = "rate_limited" THEN (2 ^ k) * RETRY_DELAY
    ELSE IF k < MAX_RETRIES - 1 THEN RETRY_DELAY
    ELSE 0

RetryIdle ==
    /\ status = <<>>
    /\ attempt = 0
    /\ slept = <<>>
    /\ fetched = "pending"
    /\ rpc = "idle"

RetryInit ==
    /\ status \in [Attempts -> Outcomes]
    /\ attempt = 0
    /\ slept = <<>>
    /\ fetched = "pending"
    /\ rpc = "request"

\* Lines 35-37: the attempt gets status 200 and its JSON is returned.
AttemptSucceeds ==
    /\ rpc = "request"
    /\ status[attempt] = "ok"
    /\ slept' = Append(slept, 0)
    /\ fetched' = "json"
    /\ rpc' = "done"
    /\ UNCHANGED <<status, attempt>>
    /\ UNCHANGED notRetryVars

\* Lines 40-51: the attempt fails, the function sleeps and goes to the next
\* attempt; line 52 after the last one.
AttemptFails ==
    /\ rpc = "request"
    /\ status[attempt] # "ok"
    /\ slept' = Append(slept, Backoff(status[attempt], attempt))
    /\ IF attempt + 1 < MAX_RETRIES
       THEN /\ attempt' = attempt + 1
            /\ UNCHANGED <<fetched, rpc>>
       ELSE /\ fetched' = NoneStr
            /\ rpc' = "done"
            /\ UNCHANGED attempt
    /\ UNCHANGED status
    /\ UNCHANGED notRetryVars

RetryNext == AttemptSucceeds \/ AttemptFails

(***************************************************************************)
(* Specifications                                                           *)
(***************************************************************************)
\* The state each specification starts in: its own component at its initial
\* state, the others idle.
OthersIdle == BatchIdle /\ FetchIdle /\ RetryIdle
MergeStart == MergeInit /\ InputIdle /\ LookupIdle /\ AnalysisIdle /\ OthersIdle
LookupStart == LookupInit /\ MergeIdle /\ AnalysisIdle /\ OthersIdle
AnalysisStart == AnalysisInit /\ MergeIdle /\ LookupIdle /\ OthersIdle
BatchStart ==
    /\ BatchInit /\ MergeIdle /\ InputIdle /\ LookupIdle /\ AnalysisIdle
    /\ FetchIdle /\ RetryIdle
FetchStart ==
    /\ FetchInit /\ MergeIdle /\ InputIdle /\ LookupIdle /\ AnalysisIdle
    /\ BatchIdle /\ RetryIdle
ExtractStart == ExtractInit /\ MergeIdle /\ InputIdle /\ LookupIdle /\ OthersIdle
SignalsStart == SignalsInit /\ MergeIdle /\ InputIdle /\ LookupIdle /\ OthersIdle
CascadeStart == CascadeInit /\ MergeIdle /\ InputIdle /\ LookupIdle /\ OthersIdle
RetryStart ==
    /\ RetryInit /\ MergeIdle /\ InputIdle /\ LookupIdle /\ AnalysisIdle
    /\ BatchIdle /\ FetchIdle

SpecMerge == MergeStart /\ [][MergeNext]_vars

SpecLookup == LookupStart /\ [][LookupNext]_vars

SpecAnalysis == AnalysisStart /\ [][AnalysisNext]_vars

SpecBatch == BatchStart /\ [][BatchNext]_vars

SpecFetch == FetchStart /\ [][FetchNext]_vars

SpecExtract == ExtractStart /\ [][ExtractNext]_vars

SpecSignals == SignalsStart /\ [][SignalsNext]_vars

SpecCascade == CascadeStart /\ [][CascadeNext]_vars

SpecRetry == RetryStart /\ [][RetryNext]_vars

\* The loop is sequential code: while a pass is possible, one is taken.
SpecFetchLive == FetchStart /\ [][FetchNext]_vars /\ WF_vars(FetchNext)

(***************************************************************************)
(* Properties of the interval aggregator                                    *)
(***************************************************************************)
Hour(h) == SecondsPerHour * h

WellFormed(event) ==
    /\ event.start.fmt \in {"ms", "s"}
    /\ event.end.fmt \in {"ms", "s"}
    /\ event.start.t <= event.end.t

AllWellFormed(evs) == \A i \in 1..Len(evs) : WellFormed(evs[i])

\* The hours [h, h+1) of the window that at least one event covers.
CoveredHours(evs) ==
    {h \in 0..(MaxHour - 1) :
        \E i \in 1..Len(evs) :
            /\ WellFormed(evs[i])
            /\ evs[i].start.t <= Hour(h)
            /\ Hour(h + 1) <= evs[i].end.t}

MergeReturned == mpc \in {"merged", "summed", "remerged"}
TotalReturned == mpc \in {"summed", "remerged"}

\* C1: calculate_total_hours over a list of well-formed events returns the
\* length of the union of their intervals: every covered hour is counted
\* exactly once.
C1_TotalIsUnionLength ==
    (TotalReturned /\ AllWellFormed(events))
        => total_hours = Cardinality(CoveredHours(events))

\* The scenario (T0, T0+10h), (T0+5h, T0+12h): 12 hours, not 17.
C1_Witness ==
    /\ TotalReturned
    /\ events = <<Event(Stamp("ms", Hour(0)), Stamp("ms", Hour(10))),
                  Event(Stamp("s", Hour(5)), Stamp("s", Hour(12)))>>
    /\ total_hours = 12

\* C2: the output of merge_intervals is sorted by start and pairwise
\* non-overlapping, and each output interval starts strictly after the
\* previous one ends (back-to-back inputs have been coalesced).
C2_MergedSortedDisjoint ==
    MergeReturned =>
        /\ \A i \in 1..(Len(merged) - 1) :
              /\ merged[i][1] <= merged[i + 1][1]
              /\ merged[i][2] < merged[i + 1][1]
        /\ \A i, j \in 1..Len(merged) : i < j => merged[i][2] < merged[j][1]

\* Back-to-back inputs (T0, T0+5h), (T0+5h, T0+10h) next to a separate third
\* interval: two output intervals.
C2_Witness ==
    /\ mpc = "merged"
    /\ events = <<Event(Stamp("ms", Hour(12)), Stamp("ms", Hour(12))),
                  Event(Stamp("ms", Hour(5)), Stamp("ms", Hour(10))),
                  Event(Stamp("ms", Hour(0)), Stamp("ms", Hour(5)))>>
    /\ merged = <<<<Hour(0), Hour(10)>>, <<Hour(12), Hour(12)>>>>

\* Two intervals overlap when they share a stretch of positive length.
Overlap(a, b) == Max(a[1], b[1]) < Min(a[2], b[2])

NoOverlaps(ivs) ==
    \A i, j \in 1..Len(ivs) : i # j => ~Overlap(ivs[i], ivs[j])

\* C3: the merged duration is at most the sum of the input durations, and
\* equals it exactly when no two input intervals overlap.
C3_MergedAtMostSum ==
    MergeReturned =>
        /\ TotalSeconds(merged) <= TotalSeconds(intervals)
        /\ (TotalSeconds(merged) = TotalSeconds(intervals)) <=> NoOverlaps(intervals)

\* Overlapping inputs whose merged duration is strictly below the sum.
C3_Witness ==
    /\ mpc = "merged"
    /\ Len(intervals) = 3
    /\ ~NoOverlaps(intervals)
    /\ TotalSeconds(merged) < TotalSeconds(intervals)
    /\ Len(merged) = 2

\* C4: merge_intervals is idempotent.
C4_MergeIdempotent ==
    mpc = "remerged" => remerged = merged

\* A second merge of an output that the first merge really shortened.
C4_Witness ==
    /\ mpc = "remerged"
    /\ Len(intervals) = 3
    /\ Len(merged) = 2
    /\ remerged = merged

(***************************************************************************)
(* Properties of the lookups                                                *)
(***************************************************************************)

\* The registry-number query of the row returned a match.
ImoMatched == Given(row_imo) /\ HasEntries(imoResp)

RegistryNumberWins(lookup) ==
    lookup.returned =>
        /\ (ImoMatched /\ Given(row_name))
              => /\ InSeq(lookup.vessel_data, imoResp.entries)
                 /\ ~InSeq("name", lookup.queried)
        /\ InSeq("name", lookup.queried) => ~ImoMatched

\* C5: with a registry number and a name supplied and a registry-number
\* match, both lookups return the registry-number match, whatever the name
\* query would return; the name query is issued only when the
\* registry-number strategy produced no match.
C5_RegistryNumberWins ==
    RegistryNumberWins(comp_lookup) /\ RegistryNumberWins(fleet_lookup)

\* Both identifiers supplied, and the two queries disagree: the name query
\* would return a record the registry-number query does not contain.
C5_Witness ==
    /\ comp_lookup.returned /\ fleet_lookup.returned
    /\ ImoMatched
    /\ row_name = "ALPHA"
    /\ HasEntries(nameResp)
    /\ ~InSeq(nameResp.entries[1], imoResp.entries)
    /\ comp_lookup.vessel_data = imoResp.entries[1]
    /\ fleet_lookup.vessel_data = imoResp.entries[1]


(***************************************************************************)
(* Properties of comprehensive_vessel_analysis                              *)
(***************************************************************************)
Returned == apc = "done"

\* Neither search produced a candidate: each came back empty or gave up.
NoStrategyMatched == ~HasEntries(imoResp) /\ ~HasEntries(nameResp)

Resolved == Returned /\ result.Classification # "Unknown"

\* The reasons the secondary rules append; the flag rule's is not one.
SecondaryReasons ==
    {"Previous flags", "High engine power", "Large vessel length",
     "Low fishing activity", "Predominantly visits foreign ports",
     "Suspicious AIS gaps", "Foreign ownership"}

\* The result carries no score field; the score of a result is read off its
\* reasons: one for every reason a secondary rule appended.
Score(r) == Cardinality({i \in 1..Len(r.Reasons) : r.Reasons[i] \in SecondaryReasons})

\* C6: when no strategy matched, the result is Unknown with the single reason
\* "No vessel data found in GFW database" and score 0, whatever the feeds
\* hold; no rule ran, no event fetch was issued, and the label is not Error.
C6_NotFoundIsUnknown ==
    (Returned /\ NoStrategyMatched)
        => /\ result.Classification = "Unknown"
           /\ result.Classification # "Error"
           /\ result.Reasons = <<"No vessel data found in GFW database">>
           /\ Score(result) = 0
           /\ classification = NoneStr
           /\ reasons = <<>>
           /\ requests = <<>>

\* Not found although the upstream holds signals that would trigger rules.
C6_Witness ==
    /\ Returned
    /\ NoStrategyMatched
    /\ imoResp = Found(<<>>)
    /\ feeds.fishing = Feed(<<>>)
    /\ feeds.gaps # Feed(<<>>)
    /\ result.Classification = "Unknown"

FlagKnownForeign == Given(details.flag) /\ details.flag # HomeFlag

\* C7: a resolved vessel is labelled Foreign exactly when its flag is known
\* and is not the home flag; otherwise the label is Suspect or Genuine
\* Senegalese.
C7_ForeignIffFlagMismatch ==
    Resolved
        => /\ result.Classification \in {"Foreign", "Suspect", Genuine}
           /\ result.Classification = "Foreign" <=> FlagKnownForeign

\* A foreign flag together with secondary signals that triggered.
C7_Witness ==
    /\ Resolved
    /\ FlagKnownForeign
    /\ Score(result) >= 2
    /\ result.Classification = "Foreign"

\* The secondary conditions that hold for the analysed vessel.
TriggeredConditions ==
    {c \in SecondaryReasons :
        \/ c = "Previous flags" /\ HasPreviousFlags(flag_history_data)
        \/ c = "High engine power" /\ HighEnginePower(details)
        \/ c = "Large vessel length" /\ LargeLength(details)
        \/ c = "Low fishing activity" /\ LowFishing(fishing_data)
        \/ c = "Predominantly visits foreign ports" /\ MostlyForeignPorts(port_data)
        \/ c = "Suspicious AIS gaps" /\ HasSuspiciousGaps(gap_data)
        \/ c = "Foreign ownership" /\ ForeignOwner(OwnerCountryOf(details.ownership))}

BelowFloor == DurationSum(feeds.fishing.entries) < FISHING_HOURS_THRESHOLD * SecondsPerHour

\* C9: a resolved home-flag vessel with an id, whose fishing events add up to
\* less than FISHING_HOURS_THRESHOLD hours, with no gaps and no encounters,
\* is labelled Suspect, has score >= 1 and carries the low-activity reason.
C9_LowActivityIsSuspect ==
    (/\ Resolved
     /\ Given(ssid)
     /\ details.flag = HomeFlag
     /\ BelowFloor
     /\ feeds.gaps = Feed(<<>>)
     /\ feeds.encounters = Feed(<<>>))
        => /\ result.Classification = "Suspect"
           /\ Score(result) >= 1
           /\ InSeq("Low fishing activity", result.Reasons)


(***************************************************************************)
(* Properties of the batch                                                  *)
(***************************************************************************)
\* main has left the pool: it wrote the results, or an exception ended it.
BatchFinished == bpc \in {"saved", "crashed"}

ResultsFor(r) == {i \in 1..Len(results) : results[i].row = r}

\* C10: when the batch has finished, results holds exactly one result for
\* every input row, whatever the completion order and whichever tasks raised.
C10_OneResultPerRow ==
    BatchFinished => \A r \in Rows : Cardinality(ResultsFor(r)) = 1


\* C11: in comprehensive_vessel_analysis.main and in the retired
\* intergrated_analysis.main a task that raised does not end the batch: main
\* writes the results, the row of every task that raised has one Error
\* result, and every other row has the result its task returned.
C11_FailureBecomesError ==
    (/\ script \in {"comprehensive_vessel_analysis", "intergrated_analysis"}
     /\ BatchFinished
     /\ raised # {})
        => /\ bpc = "saved"
           /\ \A r \in Rows :
                 {results[i] : i \in ResultsFor(r)} =
                     IF r \in raised THEN {ErrorResult(r)} ELSE {TaskResult(r)}


(***************************************************************************)
(* Exhausted retries                                                        *)
(***************************************************************************)
\* fetch_with_retry returned None to a lookup the analysis issued.
LookupGaveUp ==
    \/ imoResp = FetchFailed
    \/ ~HasEntries(imoResp) /\ nameResp = FetchFailed

\* fetch_with_retry returned None to an event fetch the analysis issued.
FetchGaveUp ==
    /\ requests # <<>>
    /\ \E k \in DOMAIN feeds : feeds[k] = FeedDown

\* C12: when the retries of a lookup or of an event fetch of the analysis
\* were exhausted, the result is labelled Error.
C12_ExhaustedRetriesAreError ==
    (Returned /\ (LookupGaveUp \/ FetchGaveUp)) => result.Classification = "Error"


(***************************************************************************)
(* Properties of the paging loop                                            *)
(***************************************************************************)
FetchReturned == fpc = "done"

\* C13: the paging loop ends, whatever the upstream answers.
C13_FetchTerminates == <>FetchReturned

\* A page after which the paging has to stop: empty, without "nextOffset",
\* or shorter than the limit.
FinalPage(data) ==
    data.ok /\ (data.entries = <<>> \/ ~data.more \/ Len(data.entries) < PageLimit)

\* C14: no request follows a page that is empty, carries no "nextOffset" or
\* is shorter than the limit; a full first page without "nextOffset" is the
\* only request.
C14_StopsAtFinalPage ==
    /\ \A i \in 1..(Len(pages) - 1) : ~FinalPage(pages[i])
    /\ (pages # <<>> /\ pages[1] = Page(PageLimit, FALSE, 0)) => Len(pages) = 1

\* The loop ended because a request got no data.
FetchAborted == FetchReturned /\ ~Answer.ok

\* C15: when the loop of comprehensive_vessel_analysis ended on a request
\* that got no data, the bundle the classifier receives differs from the
\* bundle of a fetch that found no event.
C15_AbortedIsNotZero ==
    (fetcher = "comprehensive_vessel_analysis" /\ FetchAborted)
        => analyze_fishing_activity(all_events) # analyze_fishing_activity(<<>>)

\* C26: the offset of every request is the number of records accumulated so
\* far: the cursor starts at 0 and advances by the number of records each
\* page returned (checked while that number is an offset the upstream tells
\* apart).
C26_CursorCountsRecords ==
    (fpc = "loop" /\ Len(all_events) <= MaxOffset) => offset = Len(all_events)


(***************************************************************************)
(* Properties of extract_vessel_details                                     *)
(***************************************************************************)
Extracted == apc = "collect"

RegistryRecs == vessel_data.registryInfo.recs

\* The details after the self-reported record and the first k registry
\* sub-records.
Scanned(k) ==
    FromRegistry(FromSelfReported(BlankDetails(vessel_data.id),
                                  vessel_data.selfReportedInfo),
                 SubSeq(RegistryRecs, 1, k), 1)

\* C16: a registry sub-record whose name, flag or length is empty or missing
\* leaves a name, flag or length that an earlier sub-record filled as it
\* was, and what extract_vessel_details returns is the outcome of the scan.
C16_EmptyNeverErases ==
    Extracted =>
        /\ details.name = Scanned(Len(RegistryRecs)).name
        /\ details.flag = Scanned(Len(RegistryRecs)).flag
        /\ details.length = Scanned(Len(RegistryRecs)).length
        /\ \A k \in 1..Len(RegistryRecs) :
              LET before == Scanned(k - 1)
                  after == Scanned(k)
                  entry == RegistryRecs[k]
              IN /\ (before.name # "Unknown" /\ ~Given(entry.vesselName))
                        => after.name = before.name
                 /\ (Given(before.flag) /\ ~Given(entry.flag))
                        => after.flag = before.flag
                 /\ (TruthyNum(before.length) /\ ~TruthyNum(entry.lengthMeters))
                        => after.length = before.length

\* The self-reported flag and the first sub-record's length survive
\* sub-records that carry an empty flag, no flag and no length.
C16_Witness ==
    /\ Extracted
    /\ Len(RegistryRecs) = 2
    /\ vessel_data.selfReportedInfo.recs # <<>>
    /\ vessel_data.selfReportedInfo.recs[1].flag = "SEN"
    /\ RegistryRecs[1].flag = ""
    /\ RegistryRecs[2].flag = NoneStr
    /\ RegistryRecs[1].lengthMeters = 40
    /\ RegistryRecs[2].lengthMeters = None
    /\ details.flag = "SEN"
    /\ details.length = 40

\* The values of the sub-records in scan order: self-reported, then the
\* registry sub-records.
NamesInOrder ==
    [k \in 1..Len(vessel_data.selfReportedInfo.recs) |->
        vessel_data.selfReportedInfo.recs[k].shipname]
    \o [k \in 1..Len(RegistryRecs) |-> RegistryRecs[k].vesselName]
FlagsInOrder ==
    [k \in 1..Len(vessel_data.selfReportedInfo.recs) |->
        vessel_data.selfReportedInfo.recs[k].flag]
    \o [k \in 1..Len(RegistryRecs) |-> RegistryRecs[k].flag]
LengthsInOrder == [k \in 1..Len(RegistryRecs) |-> RegistryRecs[k].lengthMeters]

\* The first non-empty string of a list, the first non-zero number of a list.
RECURSIVE FirstGiven(_, _)
FirstGiven(values, default) ==
    IF values = <<>> THEN default
    ELSE IF Given(values[1]) THEN values[1]
    ELSE FirstGiven(Tail(values), default)

RECURSIVE FirstTruthy(_)
FirstTruthy(values) ==
    IF values = <<>> THEN None
    ELSE IF TruthyNum(values[1]) THEN values[1]
    ELSE FirstTruthy(Tail(values))

\* C17: the name, the flag and the length of the details are the first
\* non-empty value of the sub-records in scan order.
C17_FirstNonEmptyWins ==
    Extracted =>
        /\ details.name = FirstGiven(NamesInOrder, "Unknown")
        /\ details.flag = FirstGiven(FlagsInOrder, NoneStr)
        /\ details.length = FirstTruthy(LengthsInOrder)


(***************************************************************************)
(* Properties of the signal bundles                                         *)
(***************************************************************************)
\* The seconds covered by at least one of the events: the duration of their
\* merged intervals.
UnionSeconds(evs) == TotalSeconds(merge_intervals(ParsedIntervals(evs)))

\* C18: the total_hours of the fishing bundle the classifier compares with
\* the floor is the merged duration of the fishing events, in hours.
C18_HoursAreMerged ==
    (Returned /\ fishing_data # NoData)
        => fishing_data.total_hours =
              RoundDiv(UnionSeconds(fetch_events(feeds.fishing)), 360)


\* The signals were collected.
Collected == apc = "check_flag" /\ port_data # NoData

\* The port visits the fetch handed to analyze_port_visits.
Visits == fetch_events(feeds.ports)

\* The visits whose anchorage flag is present and is not the home flag.
ForeignFlagged == {i \in 1..Len(Visits) : Visits[i] \notin {NoneStr, HomeFlag}}

\* C19: foreign_visits is the number of visits whose anchorage flag is
\* present and is not SEN.
C19_ForeignNeedsCode ==
    Collected => port_data.foreign_visits = Cardinality(ForeignFlagged)

\* C20 as stated: with visits, the fraction is exactly foreign_visits /
\* total_visits.
C20_FractionExact ==
    (Collected /\ port_data.total_visits > 0)
        => port_data.foreign_visit_pct * port_data.total_visits =
              100 * port_data.foreign_visits

\* C20: the port bundle is never missing; without visits it is all zeros;
\* with visits the fraction is foreign_visits / total_visits rounded to two
\* decimals (it is kept in hundredths); it lies in [0, 1].
C20_FractionRounded ==
    Collected =>
        /\ port_data.total_visits = Len(Visits)
        /\ port_data.foreign_visits >= 0
        /\ port_data.foreign_visit_pct \in 0..100
        /\ Visits = <<>> =>
              /\ port_data.foreign_visits = 0
              /\ port_data.foreign_visit_pct = 0
        /\ Visits # <<>> =>
              LET exact == 100 * port_data.foreign_visits
                  kept == port_data.foreign_visit_pct * port_data.total_visits
              IN /\ 2 * (exact - kept) <= port_data.total_visits
                 /\ 2 * (kept - exact) <= port_data.total_visits

\* Two of three visits are foreign: the fraction is kept as 0.67.
C20_Witness ==
    /\ Collected
    /\ port_data.total_visits = 3
    /\ port_data.foreign_visits = 2
    /\ port_data.foreign_visit_pct = 67


(***************************************************************************)
(* Properties of malformed records                                          *)
(***************************************************************************)
\* Both timestamps of the event are present and parse.
BothParse(event) == Parses(event.start) /\ Parses(event.end)

\* The fishing events the fetch handed to analyze_fishing_activity.
FishingEvents == fetch_events(feeds.fishing)

\* C21: an event with a malformed timestamp contributes nothing to the
\* fishing bundle: the bundle (total, event count, mean duration) is the
\* bundle of the well-formed events alone.
C21_MalformedDropped ==
    Collected =>
        fishing_data = analyze_fishing_activity(SelectSeq(FishingEvents, BothParse))


(***************************************************************************)
(* Properties of the resolver                                               *)
(***************************************************************************)
\* The event fetches of lines 558-565 were issued for the vessel.
SignalsFetched ==
    /\ fishing_data # NoData
    /\ port_data # NoData
    /\ gap_data # NoData
    /\ encounter_data # NoData
    /\ flag_history_data # NoData

\* C22: a record that is returned and not treated as not found carries a
\* non-empty id, so its event signals are fetched before it is classified.
C22_ResolvedHasId ==
    Resolved => (ssid # NoneStr /\ SignalsFetched)


\* Some entry of the response embeds the registry number of the row.
SomeEntryNames(data) ==
    \E i \in 1..Len(data.entries) : RegistryNames(data.entries[i], row_imo)

\* The record is an entry of the response that embeds the row's number.
IsExactMatchOf(record, data) ==
    InSeq(record, data.entries) /\ RegistryNames(record, row_imo)

ExactMatchPreferred(lookup) ==
    (lookup.returned /\ ImoMatched /\ Len(imoResp.entries) > 1)
        => IF SomeEntryNames(imoResp)
           THEN IsExactMatchOf(lookup.vessel_data, imoResp)
           ELSE lookup.vessel_data = imoResp.entries[1]

\* C23: when the registry-number query returns more than one entry, both
\* lookups select an entry whose registryInfo names the input number if
\* there is one, and the first entry otherwise.
C23_ExactMatchPreferred ==
    ExactMatchPreferred(comp_lookup) /\ ExactMatchPreferred(fleet_lookup)

\* The name query is due: step 1 produced no match, and the name is present
\* and is not the sentinel.
NameQueryDue == ~ImoMatched /\ Given(row_name) /\ row_name # "Unknown"

NameStep(lookup) ==
    lookup.returned =>
        /\ InSeq("name", lookup.queried) <=> NameQueryDue
        /\ (NameQueryDue /\ HasEntries(nameResp))
              => IF Given(row_imo) /\ SomeEntryNames(nameResp)
                 THEN IsExactMatchOf(lookup.vessel_data, nameResp)
                 ELSE lookup.vessel_data = nameResp.entries[1]

\* C24: the name query is issued only when step 1 produced no match and the
\* name is present and not "Unknown"; with a registry number supplied, a
\* name candidate that embeds it is selected when one exists, otherwise the
\* first candidate is.
C24_NameStep ==
    NameStep(comp_lookup) /\ NameStep(fleet_lookup)

\* The number query is empty, the name query returns two candidates of which
\* only the second embeds the number, and both lookups return the second.
C24_Witness ==
    /\ comp_lookup.returned /\ fleet_lookup.returned
    /\ NameQueryDue /\ Given(row_imo)
    /\ Len(nameResp.entries) = 2
    /\ ~RegistryNames(nameResp.entries[1], row_imo)
    /\ RegistryNames(nameResp.entries[2], row_imo)
    /\ comp_lookup.vessel_data = nameResp.entries[2]
    /\ fleet_lookup.vessel_data = nameResp.entries[2]

\* C28: on the same inputs and the same upstream responses the two lookups
\* return the same record.
C28_LookupsAgree ==
    (comp_lookup.returned /\ fleet_lookup.returned)
        => comp_lookup.vessel_data = fleet_lookup.vessel_data


(***************************************************************************)
(* Properties of the rule cascades                                          *)
(***************************************************************************)
\* The severity of a label; no label yet is below every label.
Severity(label) ==
    IF label = "Foreign" THEN 3
    ELSE IF label = "Suspect" THEN 2
    ELSE IF label = Genuine THEN 1
    ELSE 0

\* C25: no step of either cascade lowers the severity of the label: Foreign
\* never becomes Suspect or Genuine Senegalese, Suspect never becomes
\* Genuine Senegalese.
C25_NeverDowngrades ==
    [][Severity(classification') >= Severity(classification)]_vars

\* A cascade ended on Foreign after a secondary rule fired on that label.
C25_Witness ==
    /\ apc \in {"compile", "fleet_return"}
    /\ classification = "Foreign"
    /\ Len(reasons) >= 2


(***************************************************************************)
(* Properties of fetch_with_retry                                           *)
(***************************************************************************)
\* The requests issued so far.
Requests == Len(slept)

\* C27: a fetch makes at most MAX_RETRIES requests and returns None when
\* all of them failed; the wait between attempt k (from 0) and the next
\* attempt is RETRY_DELAY * 2^k when attempt k was rate-limited, and the
\* fixed RETRY_DELAY after any other failure.
C27_BackoffOnlyOnRateLimit ==
    /\ Requests <= MAX_RETRIES
    /\ (rpc = "done" /\ \A k \in Attempts : status[k] # "ok")
          => (Requests = MAX_RETRIES /\ fetched = NoneStr)
    /\ \A k \in Attempts :
          (k + 1 < Requests)
              => slept[k + 1] = IF status[k] = "rate_limited"
                                THEN RETRY_DELAY * (2 ^ k)
                                ELSE RETRY_DELAY

\* Rate-limited on the attempts 0 and 1, the fetch waited 2 s and 4 s, made
\* its third request and gave up.
C27_Witness ==
    /\ rpc = "done"
    /\ fetched = NoneStr
    /\ Requests = MAX_RETRIES
    /\ status[0] = "rate_limited" /\ status[1] = "rate_limited"
    /\ slept[1] = RETRY_DELAY /\ slept[2] = 2 * RETRY_DELAY

\* C30: once the last permitted request has failed, for any kind of failure,
\* the function returns without a further sleep.
C30_NoWaitAfterLastAttempt ==
    (rpc = "done" /\ Requests = MAX_RETRIES /\ status[MAX_RETRIES - 1] # "ok")
        => slept[MAX_RETRIES] = 0


(***************************************************************************)
(* Frame of merge_intervals                                                 *)
(***************************************************************************)
\* merge_intervals has been called on the caller's list.
MergeCalled == mpc \in {"merged", "summed", "remerged"}

\* C29: after the call of merge_intervals the caller's list holds the same
\* intervals in the same order as before the call.
C29_ArgumentUnchanged ==
    MergeCalled => intervals = ParsedIntervals(events)

====
